---- MODULE Spec2Model ----
(***************************************************************************)
(* A model of the question-answering pipeline of snug-o-nauts-rag:         *)
(* rag_pipeline.answer_question (guardrail gate, tokenizer, n-gram         *)
(* extractor, candidate scorer, candidate selector, answer composer) and   *)
(* its callers app.chat_api, evaluate.run_evaluation and                   *)
(* ablation_study.run_ablation_configuration.                              *)
(*                                                                         *)
(* A Python str is a sequence of one-character strings.  A Python float    *)
(* computed by the scorer is an exact rational <<numerator, denominator>>  *)
(* with a positive denominator; comparisons are by cross-multiplication.   *)
(***************************************************************************)
EXTENDS Integers, Sequences, FiniteSets, TLC

VARIABLES
    pc,           \* position of the request: which step runs next
    caller,       \* who called: "chat", "evaluate", "ablation", or "none"
    question,     \* the question string
    config,       \* keyword arguments the ablation driver passes
    results,      \* documents the retriever returned
    scores,       \* the list `scores` of answer_question
    best_score,   \* the selected score record (a one-element sequence, or <<>>)
    branch,       \* which selection rule ran
    template,     \* which prompt template was chosen
    prompt_ctx,   \* the context placed in the prompt
    llm_calls,    \* number of llm.invoke calls of this request
    generated,    \* the text llm.invoke returned
    retrieved,    \* whether get_relevant_documents returned
    unavailable,  \* the collaborator that was unavailable, or "none"
    outcome,      \* "none", "return" or "raise": how answer_question ended
    answer,       \* the string answer_question returned
    error,        \* the exception raised
    http,         \* what the caller produced from the outcome
    frame,        \* concurrent calls: the locals of each call of answer_question
    call,         \* concurrent calls: position, arguments and result of each call
    input,        \* a function called on its own: which one, and its arguments
    output        \* a function called on its own: what it returned

\* the variables of one request
rvars == <<pc, caller, question, config, results, scores, best_score, branch,
           template, prompt_ctx, llm_calls, generated, retrieved, unavailable,
           outcome, answer, error, http>>

\* the variables of concurrent calls
cvars == <<frame, call>>

\* the variables of a function called on its own
fvars == <<input, output>>

vars == <<rvars, cvars, fvars>>

----------------------------------------------------------------------------
(* Characters and Python's str methods.                                    *)

Whitespace == {" ", "\n", "\t"}

Digits == {"0", "1", "2", "3", "4", "5", "6", "7", "8", "9"}

DigitAt == <<"0", "1", "2", "3", "4", "5", "6", "7", "8", "9">>

UpperLetters ==
    <<"A", "B", "C", "D", "E", "F", "G", "H", "I", "J", "K", "L", "M",
      "N", "O", "P", "Q", "R", "S", "T", "U", "V", "W", "X", "Y", "Z">>

LowerLetters ==
    <<"a", "b", "c", "d", "e", "f", "g", "h", "i", "j", "k", "l", "m",
      "n", "o", "p", "q", "r", "s", "t", "u", "v", "w", "x", "y", "z">>

UpperSet == {UpperLetters[i] : i \in DOMAIN UpperLetters}

LowerOf ==
    [c \in UpperSet |->
        LowerLetters[CHOOSE i \in DOMAIN UpperLetters : UpperLetters[i] = c]]

\* A string given as a function of its indices, as a tuple of characters.
Str(f) == <<>> \o f

\* str.lower()
Lower(text) ==
    Str([i \in DOMAIN text |-> IF text[i] \in UpperSet THEN LowerOf[text[i]] ELSE text[i]])

\* str.replace(old, new) for one-character strings old and new
ReplaceChar(text, old, new) ==
    Str([i \in DOMAIN text |-> IF text[i] = old THEN new ELSE text[i]])

Indices(text) == Str([i \in DOMAIN text |-> i])

\* the characters of text at the indices that satisfy Keep, in order
Filter(text, Keep(_)) ==
    LET kept == SelectSeq(Indices(text), Keep)
    IN  Str([k \in DOMAIN kept |-> text[kept[k]]])

\* str.replace('**', ''): the leftmost non-overlapping occurrences are removed,
\* so a run of L stars loses its first 2 * (L \div 2) stars
RemoveBold(text) ==
    LET IsStar(i) == i \in DOMAIN text /\ text[i] = "*"
        RunStart(i) == CHOOSE s \in 1..i :
                          (\A j \in s..i : IsStar(j)) /\ ~IsStar(s - 1)
        RunEnd(i) == CHOOSE e \in i..Len(text) :
                          (\A j \in i..e : IsStar(j)) /\ ~IsStar(e + 1)
        Removed(i) ==
            IsStar(i) /\ i - RunStart(i) < 2 * ((RunEnd(i) - RunStart(i) + 1) \div 2)
    IN  Filter(text, LAMBDA i : ~Removed(i))

\* str.split(): the maximal runs of non-whitespace characters, in order
Split(text) ==
    LET InWord(i) == i \in DOMAIN text /\ text[i] \notin Whitespace
        starts == SelectSeq(Indices(text), LAMBDA i : InWord(i) /\ ~InWord(i - 1))
        ends == SelectSeq(Indices(text), LAMBDA i : InWord(i) /\ ~InWord(i + 1))
    IN  Str([k \in DOMAIN starts |-> SubSeq(text, starts[k], ends[k])])

\* str.split(sep) for a one-character sep: empty pieces are kept
SplitOn(text, sep) ==
    LET seps == SelectSeq(Indices(text), LAMBDA i : text[i] = sep)
        From(k) == IF k = 1 THEN 1 ELSE seps[k - 1] + 1
        To(k) == IF k > Len(seps) THEN Len(text) ELSE seps[k] - 1
    IN  Str([k \in 1..(Len(seps) + 1) |-> SubSeq(text, From(k), To(k))])

\* str.strip(chars): leading and trailing characters of the set are removed
RECURSIVE LStrip(_, _)
LStrip(word, chars) ==
    IF word # <<>> /\ Head(word) \in chars THEN LStrip(Tail(word), chars) ELSE word

RECURSIVE RStrip(_, _)
RStrip(word, chars) ==
    IF word # <<>> /\ word[Len(word)] \in chars
    THEN RStrip(SubSeq(word, 1, Len(word) - 1), chars)
    ELSE word

\* The mutant strips the leading characters only (str.lstrip).
Strip_LeadingOnly(word, chars) == LStrip(word, chars)

Strip(word, chars) == RStrip(LStrip(word, chars), chars)

\* str.isnumeric(): non-empty and every character numeric
IsNumeric(word) == word # <<>> /\ \A i \in DOMAIN word : word[i] \in Digits

\* ' '.join(words)
RECURSIVE JoinSpace(_)
JoinSpace(words) ==
    IF words = <<>> THEN <<>>
    ELSE IF Len(words) = 1 THEN words[1]
         ELSE words[1] \o <<" ">> \o JoinSpace(Tail(words))

\* `term in text` for strings
IsSubstring(term, text) ==
    \E i \in 0..(Len(text) - Len(term)) :
        \A j \in 1..Len(term) : text[i + j] = term[j]

----------------------------------------------------------------------------
(* Tokenizer and n-gram extractor.                                         *)

EdgePunctuation == {".", ",", ";", ":", "?", "!"}

GetNormalizedTokens(text) ==
    LET t1 == ReplaceChar(ReplaceChar(RemoveBold(text), "\"", "\""), "\"", "\"")
        ws == Split(ReplaceChar(ReplaceChar(Lower(t1), "(", " "), ")", " "))
        stripped == {Strip(ws[i], EdgePunctuation) : i \in DOMAIN ws}
    IN  {w \in stripped : w # <<>> /\ Len(w) > 1 /\ ~IsNumeric(w)}

\* The mutant stops one position early: range(len(words) - n).
GetNgrams_OffByOne(text, n) ==
    LET words == Split(Lower(text))
    IN  {JoinSpace(SubSeq(words, i + 1, i + n)) : i \in 0..(Len(words) - n - 1)}

GetNgrams(text, n) ==
    LET words == Split(Lower(text))
    IN  {JoinSpace(SubSeq(words, i + 1, i + n)) : i \in 0..(Len(words) - n)}

----------------------------------------------------------------------------
(* The scorer's arithmetic: exact rationals <<numerator, denominator>>.    *)

RECURSIVE GCD(_, _)
GCD(a, b) == IF b = 0 THEN a ELSE GCD(b, a % b)

Norm(r) ==
    LET g == GCD(r[1], r[2])
    IN  IF g = 0 THEN <<0, 1>> ELSE <<r[1] \div g, r[2] \div g>>

Zero == <<0, 1>>

One == <<1, 1>>

\* What a / b leaves when b = 0: Python raises ZeroDivisionError.
DivisionByZero == <<0, 0>>

\* a / b for integers a >= 0 and b >= 0
Div(a, b) == IF b = 0 THEN DivisionByZero ELSE Norm(<<a, b>>)

RatAdd(x, y) == Norm(<<x[1] * y[2] + y[1] * x[2], x[2] * y[2]>>)

RatMul(x, y) == Norm(<<x[1] * y[1], x[2] * y[2]>>)

RatLess(x, y) == x[1] * y[2] < y[1] * x[2]

RatLeq(x, y) == x[1] * y[2] <= y[1] * x[2]

RatEq(x, y) == x[1] * y[2] = y[1] * x[2]

RatMin(x, y) == IF RatLeq(x, y) THEN x ELSE y

----------------------------------------------------------------------------
(* String constants of the program.                                        *)

RefusalMessage ==
    <<"I", " ", "c", "a", "n", " ", "o", "n", "l", "y", " ", "a", "n", "s",
      "w", "e", "r", " ", "q", "u", "e", "s", "t", "i", "o", "n", "s", " ",
      "a", "b", "o", "u", "t", " ", "o", "u", "r", " ", "c", "o", "m", "p",
      "a", "n", "y", " ", "p", "o", "l", "i", "c", "i", "e", "s", " ", "a",
      "n", "d", " ", "p", "r", "o", "c", "e", "d", "u", "r", "e", "s", ".">>

SetupFailedMessage ==
    <<"S", "e", "t", "u", "p", " ", "f", "a", "i", "l", "e", "d", ":", " ",
      "V", "e", "c", "t", "o", "r", " ", "s", "t", "o", "r", "e", " ", "n",
      "o", "t", " ", "a", "v", "a", "i", "l", "a", "b", "l", "e", ".">>

CitationPrefix ==
    <<"\n", "\n", "*", "*", "S", "o", "u", "r", "c", "e", "s", ":", "*",
      "*", " ">>

SourcesMarker ==
    <<"*", "*", "S", "o", "u", "r", "c", "e", "s", ":", "*", "*">>

UnknownSource ==
    <<"U", "n", "k", "n", "o", "w", "n", " ", "S", "o", "u", "r", "c", "e">>

MissingQuestionError ==
    <<"M", "i", "s", "s", "i", "n", "g", " ", "'", "q", "u", "e", "s", "t",
      "i", "o", "n", "'", " ", "i", "n", " ", "r", "e", "q", "u", "e", "s",
      "t", " ", "b", "o", "d", "y">>

----------------------------------------------------------------------------
(* Inputs: the questions a caller may ask, the chunks the vector store     *)
(* holds, what the retriever and the language model may answer.            *)

MaxQuestionWords == 3

MaxEvaluationWords == 1

RetrieverK == 8

SeqsUpTo(S, n) == UNION {[1..k -> S] : k \in 0..n}

QuestionWords ==
    { <<"P", "T", "O">>,
      <<"r", "a", "t", "e", "?">>,
      <<"p", "o", "l", "i", "c", "y">>,
      <<"a">> }

Questions == {JoinSpace(ws) : ws \in SeqsUpTo(QuestionWords, MaxQuestionWords)}

\* The queries of evaluation_data.json.
EvaluationQueries == {JoinSpace(ws) : ws \in SeqsUpTo(QuestionWords, MaxEvaluationWords)}

\* "x00 x01 ... x99 ": one hundred distinct words
Filler ==
    Str([i \in 1..400 |->
        LET word == (i - 1) \div 4
            at == (i - 1) % 4
        IN  IF at = 0 THEN "x"
            ELSE IF at = 1 THEN DigitAt[(word \div 10) + 1]
            ELSE IF at = 2 THEN DigitAt[(word % 10) + 1]
            ELSE " "])

Source(name) == {<<"source", name>>}

NoMetadata == {}

\* n spaces
Padding(n) == Str([i \in 1..n |-> " "])

\* The chunks of the store.  Their lengths are 101, 410, 100, 409 and 0
\* characters; trailing spaces change no score.
Corpus ==
    << [page_content |-> <<"p", "t", "o", " ", "r", "a", "t", "e", " ",
                           "p", "o", "l", "i", "c", "y">> \o Padding(86),
        metadata |-> Source(<<"a", ".", "m", "d">>)],
       [page_content |-> <<"P", "T", "O", " ", "r", "a", "t", "e", "?", " ">> \o Filler,
        metadata |-> Source(<<"b", ".", "m", "d">>)],
       [page_content |-> <<"p", "t", "o">> \o Padding(97),
        metadata |-> NoMetadata],
       [page_content |-> Filler \o <<"\n", "(", "4", "2", ")", " ", "z", "z", ".">>,
        metadata |-> Source(<<"c", ".", "m", "d">>)],
       [page_content |-> <<>>,
        metadata |-> Source(<<"a", ".", "m", "d">>)] >>

\* The retriever returns at most k distinct chunks of the store, in its order.
Retrievals ==
    {r \in SeqsUpTo(DOMAIN Corpus, Len(Corpus)) :
        /\ Len(r) <= RetrieverK
        /\ \A i, j \in DOMAIN r : i # j => r[i] # r[j]}

\* What llm.invoke may return: a plain answer, and an answer in which the
\* language model cites its source itself, as RULE 2 of PROMPT_TEMPLATE asks.
Responses ==
    { <<"2", " ", "d", "a", "y", "s", ".">>,
      <<" ", "S", "e", "e", " ", "H", "R", ";", " ", "o", "k", ".", "\n",
        "*", "*", "S", "o", "u", "r", "c", "e", "s", ":", "*", "*", " ",
        "b", ".", "m", "d">> }

----------------------------------------------------------------------------
(* Candidate scorer: the body of the loop `for doc in results`.            *)

CompletenessTokens == 100

KeyTermMinLen == 3

WeightTokenOverlap == <<35, 100>>

WeightPhrase == <<25, 100>>

WeightTerm == <<20, 100>>

WeightCompleteness == <<20, 100>>

\* What the loop derives from each document of the store, computed once per
\* document: doc_tokens, doc_content, doc_bigrams and doc_trigrams.
DocTokens == Str([d \in DOMAIN Corpus |-> GetNormalizedTokens(Corpus[d].page_content)])

DocContent == Str([d \in DOMAIN Corpus |-> Lower(Corpus[d].page_content)])

DocBigrams == Str([d \in DOMAIN Corpus |-> GetNgrams(DocContent[d], 2)])

DocTrigrams == Str([d \in DOMAIN Corpus |-> GetNgrams(DocContent[d], 3)])

\* The mutant divides without the guard `if question_tokens`.
TokenOverlap_Unguarded(question_tokens, doc_tokens) ==
    Div(Cardinality(question_tokens \cap doc_tokens), Cardinality(question_tokens))

TokenOverlap(question_tokens, doc_tokens) ==
    LET shared_tokens == question_tokens \cap doc_tokens
    IN  IF question_tokens # {}
        THEN Div(Cardinality(shared_tokens), Cardinality(question_tokens))
        ELSE Zero

\* The mutant takes the ratio over an empty set of question n-grams to be 1.
NgramMatches_EmptyIsOne(question_ngrams, doc_ngrams) ==
    IF question_ngrams # {}
    THEN Div(Cardinality(question_ngrams \cap doc_ngrams), Cardinality(question_ngrams))
    ELSE One

\* bigram_matches and trigram_matches
NgramMatches(question_ngrams, doc_ngrams) ==
    IF question_ngrams # {}
    THEN Div(Cardinality(question_ngrams \cap doc_ngrams), Cardinality(question_ngrams))
    ELSE Zero

PhraseScore(bigram_matches, trigram_matches) ==
    RatMul(RatAdd(bigram_matches, trigram_matches), <<1, 2>>)

KeyTerms(q) ==
    LET ws == Split(q)
    IN  {Lower(ws[i]) : i \in {j \in DOMAIN ws : Len(ws[j]) > KeyTermMinLen}}

\* The orders in which Python may iterate over a set: they differ from one
\* interpreter run to another (hash randomisation).
IterationOrders(S) ==
    {order \in [1..Cardinality(S) -> S] :
        \A i, j \in DOMAIN order : i # j => order[i] # order[j]}

\* The mutant looks at the first term of the iteration only.
TermMatches_First(key_terms, doc_content) ==
    IF key_terms # <<>> /\ IsSubstring(key_terms[1], doc_content) THEN 1 ELSE 0

\* sum(1 for term in key_terms if term in doc_content); key_terms is the set
\* in the order of its iteration
TermMatches(key_terms, doc_content) ==
    Len(SelectSeq(key_terms, LAMBDA term : IsSubstring(term, doc_content)))

TermScore(key_terms, doc_content) ==
    LET term_matches == TermMatches(key_terms, doc_content)
    IN  IF key_terms # <<>> THEN Div(term_matches, Len(key_terms)) ELSE Zero

\* The mutant leaves out the cap min(..., 1.0).
Completeness_Uncapped(doc_tokens) == Div(Cardinality(doc_tokens), CompletenessTokens)

Completeness(doc_tokens) ==
    RatMin(Div(Cardinality(doc_tokens), CompletenessTokens), One)

\* The mutant weighs term_score by 0.30.
FinalScore_TermWeight30(token_overlap, phrase_score, term_score, completeness) ==
    RatAdd(RatAdd(RatMul(token_overlap, WeightTokenOverlap),
                  RatMul(phrase_score, WeightPhrase)),
           RatAdd(RatMul(term_score, <<30, 100>>),
                  RatMul(completeness, WeightCompleteness)))

FinalScore(token_overlap, phrase_score, term_score, completeness) ==
    RatAdd(RatAdd(RatMul(token_overlap, WeightTokenOverlap),
                  RatMul(phrase_score, WeightPhrase)),
           RatAdd(RatMul(term_score, WeightTerm),
                  RatMul(completeness, WeightCompleteness)))

\* The values one pass of the loop computes; `d` identifies a Document of the
\* store.  question_tokens, question_bigrams and question_trigrams are computed
\* before the loop, key_terms in each pass from the question alone; it is given
\* in the order of its iteration.
LoopPass(question_tokens, question_bigrams, question_trigrams, key_terms, d) ==
    LET doc_tokens == DocTokens[d]
        token_overlap == TokenOverlap(question_tokens, doc_tokens)
        bigram_matches == NgramMatches(question_bigrams, DocBigrams[d])
        trigram_matches == NgramMatches(question_trigrams, DocTrigrams[d])
        phrase_score == PhraseScore(bigram_matches, trigram_matches)
        term_score == TermScore(key_terms, DocContent[d])
        completeness == Completeness(doc_tokens)
    IN  [doc |-> d,
         score |-> FinalScore(token_overlap, phrase_score, term_score, completeness),
         token_overlap |-> token_overlap,
         phrase_score |-> phrase_score,
         term_score |-> term_score,
         completeness |-> completeness,
         raised |-> DivisionByZero \in
                       {token_overlap, bigram_matches, trigram_matches, term_score}]

\* The loop over docs, the set key_terms being iterated in the given order.
Loop(q, docs, order) ==
    LET question_tokens == GetNormalizedTokens(q)
        question_bigrams == GetNgrams(q, 2)
        question_trigrams == GetNgrams(q, 3)
    IN  [i \in DOMAIN docs |->
            LoopPass(question_tokens, question_bigrams, question_trigrams, order,
                     docs[i])]

\* Loop(q, docs, order)[i] depends on q, order and docs[i] alone: the passes
\* over every question, every iteration order of its key terms and every
\* document of the store, computed once.
AllDocs == Str([d \in DOMAIN Corpus |-> d])

Passes ==
    [q \in Questions \cup EvaluationQueries |->
        [order \in IterationOrders(KeyTerms(q)) |-> Str(Loop(q, AllDocs, order))] @@ <<>>]
    @@ <<>>

ScoreKeys == {"doc", "score", "token_overlap", "phrase_score", "term_score", "completeness"}

\* The dict appended to `scores`; scores[i].doc refers to the Document.
ScoreRecord(pass) == [k \in ScoreKeys |-> pass[k]]

----------------------------------------------------------------------------
(* Candidate selector: the sort and the choice of best_score.              *)

TopCandidates == 3

StrongTokenOverlap == <<4, 10>>

StrongPhrase == <<5, 10>>

BlendTokenOverlap == <<6, 10>>

BlendPhrase == <<4, 10>>

EscalateTokenOverlap == <<14, 10>>

EscalatePhrase == <<13, 10>>

EscalateScore == <<9, 10>>

EscalateCompleteness == <<12, 10>>

\* list.sort(key=score, reverse=True): stable, descending
\* The mutant places an element before the elements of equal score.
RECURSIVE InsertByScore_Unstable(_, _)
InsertByScore_Unstable(sorted, x) ==
    IF sorted = <<>> THEN <<x>>
    ELSE IF RatLeq(Head(sorted).score, x.score)
         THEN <<x>> \o sorted
         ELSE <<Head(sorted)>> \o InsertByScore_Unstable(Tail(sorted), x)

RECURSIVE InsertByScore(_, _)
InsertByScore(sorted, x) ==
    IF sorted = <<>> THEN <<x>>
    ELSE IF RatLess(Head(sorted).score, x.score)
         THEN <<x>> \o sorted
         ELSE <<Head(sorted)>> \o InsertByScore(Tail(sorted), x)

RECURSIVE SortByScore(_)
SortByScore(s) ==
    IF s = <<>> THEN <<>>
    ELSE InsertByScore(SortByScore(SubSeq(s, 1, Len(s) - 1)), s[Len(s)])

IsStrong(s) ==
    \/ RatLeq(StrongTokenOverlap, s.token_overlap)
    \/ RatLeq(StrongPhrase, s.phrase_score)

Blend(s) ==
    RatAdd(RatMul(s.token_overlap, BlendTokenOverlap),
           RatMul(s.phrase_score, BlendPhrase))

\* The mutant returns the first strong match, the one with the best final score.
MaxByBlend_First(best, rest) == best

\* max(strong_matches, key=blend): the first maximal element
RECURSIVE MaxByBlend(_, _)
MaxByBlend(best, rest) ==
    IF rest = <<>> THEN best
    ELSE MaxByBlend(IF RatLess(Blend(best), Blend(Head(rest))) THEN Head(rest) ELSE best,
                    Tail(rest))

SignificantlyBetter(candidate, best) ==
    \/ RatLess(RatMul(best.token_overlap, EscalateTokenOverlap), candidate.token_overlap)
    \/ RatLess(RatMul(best.phrase_score, EscalatePhrase), candidate.phrase_score)
    \/ /\ RatLess(RatMul(best.score, EscalateScore), candidate.score)
       /\ RatLess(RatMul(best.completeness, EscalateCompleteness), candidate.completeness)

\* The mutant compares every candidate with the first `best`, never with a
\* candidate that replaced it.
Escalate_AgainstFirst(best, rest) ==
    LET better == SelectSeq(rest, LAMBDA candidate : SignificantlyBetter(candidate, best))
    IN  IF better = <<>> THEN best ELSE better[Len(better)]

\* for candidate in candidates[1:]: one left-to-right sweep
RECURSIVE Escalate(_, _)
Escalate(best, rest) ==
    IF rest = <<>> THEN best
    ELSE Escalate(IF SignificantlyBetter(Head(rest), best) THEN Head(rest) ELSE best,
                  Tail(rest))

\* The mutant takes every candidate into the pool.
TopOf_All(sorted) == sorted

TopOf(sorted) ==
    SubSeq(sorted, 1, IF Len(sorted) < TopCandidates THEN Len(sorted) ELSE TopCandidates)

\* The mutant runs the strong-match filter and the escalation rule on a
\* single candidate too.
Selection_NoSingleShortcut(sorted) ==
    LET candidates == TopOf(sorted)
        strong_matches == SelectSeq(candidates, IsStrong)
    IN  IF strong_matches # <<>>
        THEN [best |-> MaxByBlend(Head(strong_matches), Tail(strong_matches)),
              branch |-> "strong"]
        ELSE [best |-> Escalate(sorted[1], Tail(candidates)),
              branch |-> "escalation"]

\* best_score = scores[0] and the block under `if len(scores) > 1`; branch
\* names the rule that decided: "single", "strong" or "escalation".
Selection(sorted) ==
    IF Len(sorted) > 1
    THEN LET candidates == TopOf(sorted)
             strong_matches == SelectSeq(candidates, IsStrong)
         IN  IF strong_matches # <<>>
             THEN [best |-> MaxByBlend(Head(strong_matches), Tail(strong_matches)),
                   branch |-> "strong"]
             ELSE [best |-> Escalate(sorted[1], Tail(candidates)),
                   branch |-> "escalation"]
    ELSE [best |-> sorted[1], branch |-> "single"]

----------------------------------------------------------------------------
(* Answer composer and the parsing done by the callers.                    *)

TemplateThreshold == 100

\* The mutant never short-circuits.
GuardrailFires_Never(docs) == FALSE

\* `if not results`
GuardrailFires(docs) == docs = <<>>

\* The mutant is metadata.get(key, "").
MetadataGet_EmptyDefault(metadata, key, default) ==
    IF \E p \in metadata : p[1] = key
    THEN (CHOOSE p \in metadata : p[1] = key)[2]
    ELSE <<>>

\* best_doc.metadata.get("source", "Unknown Source")
MetadataGet(metadata, key, default) ==
    IF \E p \in metadata : p[1] = key
    THEN (CHOOSE p \in metadata : p[1] = key)[2]
    ELSE default

\* The mutant reads the metadata of the first chunk of the store, whichever
\* document was selected.
SourceOf_FirstChunk(d) == MetadataGet(Corpus[1].metadata, "source", UnknownSource)

SourceOf(d) == MetadataGet(Corpus[d].metadata, "source", UnknownSource)

\* The mutant compares with >=.
ChooseTemplate_AtLeast(context_text) ==
    IF Len(context_text) >= TemplateThreshold THEN "ANSWER_TEMPLATE" ELSE "PROMPT_TEMPLATE"

ChooseTemplate(context_text) ==
    IF Len(context_text) > TemplateThreshold THEN "ANSWER_TEMPLATE" ELSE "PROMPT_TEMPLATE"

\* Whether a template holds "RULE 3: GUARDRAIL", the instruction to refuse when
\* the context is empty or does not contain the answer.
InstructsRefusal(template_to_use) == template_to_use = "PROMPT_TEMPLATE"

\* final_answer = response_content + f"\n\n**Sources:** {source_doc}"
FinalAnswer(response_content, source_doc) ==
    response_content \o CitationPrefix \o source_doc

\* index of the first occurrence of marker in text, counted from 0
FindFirst(marker, text) ==
    CHOOSE i \in 0..(Len(text) - Len(marker)) :
        /\ \A j \in 1..Len(marker) : text[i + j] = marker[j]
        /\ \A k \in 0..(i - 1) : \E j \in 1..Len(marker) : text[k + j] # marker[j]

\* The body of chat_api after answer_question returned raw_answer.
ParseAnswer(raw_answer) ==
    IF IsSubstring(SourcesMarker, raw_answer)
    THEN LET at == FindFirst(SourcesMarker, raw_answer)
             answer_part == SubSeq(raw_answer, 1, at)
             sources_part == SubSeq(raw_answer, at + Len(SourcesMarker) + 1, Len(raw_answer))
             pieces == SplitOn(sources_part, ";")
             stripped == [i \in DOMAIN pieces |-> Strip(pieces[i], Whitespace)]
         IN  [answer |-> Strip(answer_part, Whitespace),
              citations |-> SelectSeq(stripped, LAMBDA x : x # <<>>)]
    ELSE [answer |-> Strip(raw_answer, Whitespace), citations |-> <<>>]

----------------------------------------------------------------------------
(* Keyword arguments: a Python call raises TypeError when it passes a      *)
(* keyword the callee's signature does not name.                           *)

RunEvaluationParams == {}

AnswerQuestionParams == {"question"}

AblationConfigs ==
    [baseline   |-> [use_mmr |-> TRUE,  use_ngrams |-> TRUE,  k |-> 20, use_weighted_scoring |-> TRUE],
     no_mmr     |-> [use_mmr |-> FALSE, use_ngrams |-> TRUE,  k |-> 20, use_weighted_scoring |-> TRUE],
     no_ngrams  |-> [use_mmr |-> TRUE,  use_ngrams |-> FALSE, k |-> 20, use_weighted_scoring |-> TRUE],
     small_k    |-> [use_mmr |-> TRUE,  use_ngrams |-> TRUE,  k |-> 5,  use_weighted_scoring |-> TRUE],
     no_weights |-> [use_mmr |-> TRUE,  use_ngrams |-> TRUE,  k |-> 20, use_weighted_scoring |-> FALSE]]

NoReply == [status |-> "none", answer |-> <<>>, citations |-> <<>>, error |-> <<>>]

----------------------------------------------------------------------------
(* The state machine.                                                      *)

\* No request is being served.
NoRequest ==
    /\ pc = "idle"
    /\ caller = "none"
    /\ question = <<>>
    /\ config = <<>>
    /\ results = <<>>
    /\ scores = <<>>
    /\ best_score = <<>>
    /\ branch = "none"
    /\ template = "none"
    /\ prompt_ctx = <<>>
    /\ llm_calls = 0
    /\ generated = <<>>
    /\ retrieved = FALSE
    /\ unavailable = "none"
    /\ outcome = "none"
    /\ answer = <<>>
    /\ error = "none"
    /\ http = NoReply

\* The two calls of answer_question that may run at the same time.
Invocations == {1, 2}

\* The locals of a call before any is assigned.
UnboundFrame ==
    [question |-> <<>>, results |-> <<>>, scores |-> <<>>, best_score |-> <<>>,
     scores_by |-> 0, best_by |-> 0]

\* A call that has not started: what it was given, what it computed and what
\* it returned are empty.
IdleCall ==
    [pc |-> "idle", question |-> <<>>, docs |-> <<>>, order |-> <<>>, response |-> <<>>,
     computed |-> <<>>, selected |-> 0, answer |-> <<>>, error |-> "none",
     foreign |-> FALSE]

NoCalls ==
    /\ frame = [f \in Invocations |-> UnboundFrame]
    /\ call = [t \in Invocations |-> IdleCall]

NoInput == [fn |-> "none", text |-> <<>>, n |-> 0, scores |-> <<>>]

NoFunction ==
    /\ input = NoInput
    /\ output = <<>>

Init ==
    /\ NoRequest
    /\ NoCalls
    /\ NoFunction

\* chat_api up to its call of answer_question
ChatRequest ==
    /\ pc = "idle"
    /\ \E q \in Questions :
        /\ caller' = "chat"
        /\ question' = q
        /\ IF q = <<>>
           THEN /\ http' = [NoReply EXCEPT !.status = "400", !.error = MissingQuestionError]
                /\ pc' = "done"
           ELSE /\ http' = http
                /\ pc' = "setup"
    /\ UNCHANGED <<config, results, scores, best_score, branch, template, prompt_ctx,
                   llm_calls, generated, retrieved, unavailable, outcome, answer, error>>
    /\ UNCHANGED <<cvars, fvars>>

\* run_evaluation: one item of its loop, up to its call of answer_question
EvaluateRequest ==
    /\ pc = "idle"
    /\ \E q \in EvaluationQueries :
        /\ caller' = "evaluate"
        /\ question' = q
        /\ pc' = "setup"
    /\ UNCHANGED <<config, results, scores, best_score, branch, template, prompt_ctx,
                   llm_calls, generated, retrieved, unavailable, outcome, answer, error,
                   http>>
    /\ UNCHANGED <<cvars, fvars>>

\* run_ablation_configuration(config): run_evaluation(answer_func=custom_answer),
\* where custom_answer(q) is answer_question(q, **config)
AblationRequest ==
    /\ pc = "idle"
    /\ \E name \in DOMAIN AblationConfigs :
        /\ caller' = "ablation"
        /\ config' = <<AblationConfigs[name]>>
        /\ IF /\ "answer_func" \in RunEvaluationParams
              /\ DOMAIN AblationConfigs[name] \subseteq AnswerQuestionParams
           THEN /\ \E q \in EvaluationQueries : question' = q
                /\ pc' = "setup"
                /\ UNCHANGED <<outcome, error, http>>
           ELSE /\ question' = question
                /\ outcome' = "raise"
                /\ error' = "TypeError"
                /\ http' = [NoReply EXCEPT !.status = "crashed"]
                /\ pc' = "done"
    /\ UNCHANGED <<results, scores, best_score, branch, template, prompt_ctx,
                   llm_calls, generated, retrieved, unavailable, answer>>
    /\ UNCHANGED <<cvars, fvars>>

\* setup_rag_components and the check `if db is None`
Setup ==
    /\ pc = "setup"
    /\ \E chroma_exists \in BOOLEAN :
        IF chroma_exists
        THEN /\ pc' = "retrieve"
             /\ UNCHANGED <<unavailable, outcome, answer>>
        ELSE /\ unavailable' = "vector_store"
             /\ outcome' = "return"
             /\ answer' = SetupFailedMessage
             /\ pc' = "respond"
    /\ UNCHANGED <<caller, question, config, results, scores, best_score, branch,
                   template, prompt_ctx, llm_calls, generated, retrieved, error, http>>
    /\ UNCHANGED <<cvars, fvars>>

\* compression_retriever.get_relevant_documents(question) and the guardrail gate
Retrieve ==
    /\ pc = "retrieve"
    /\ \/ \E r \in Retrievals :
            /\ results' = r
            /\ retrieved' = TRUE
            /\ IF GuardrailFires(r)
               THEN /\ outcome' = "return"
                    /\ answer' = RefusalMessage
                    /\ pc' = "respond"
               ELSE /\ pc' = "score"
                    /\ UNCHANGED <<outcome, answer>>
            /\ UNCHANGED <<unavailable, error>>
       \/ /\ unavailable' = "retrieval"
          /\ outcome' = "raise"
          /\ error' = "RetrievalError"
          /\ pc' = "respond"
          /\ UNCHANGED <<results, retrieved, answer>>
    /\ UNCHANGED <<caller, question, config, scores, best_score, branch, template,
                   prompt_ctx, llm_calls, generated, http>>
    /\ UNCHANGED <<cvars, fvars>>

\* the scoring loop over results; a division by zero raises ZeroDivisionError
Score ==
    /\ pc = "score"
    /\ \E order \in DOMAIN Passes[question] :
        LET passes == [i \in DOMAIN results |-> Passes[question][order][results[i]]]
        IN  IF \E i \in DOMAIN passes : passes[i].raised
            THEN /\ outcome' = "raise"
                 /\ error' = "ZeroDivisionError"
                 /\ pc' = "respond"
                 /\ scores' = scores
            ELSE /\ scores' = [i \in DOMAIN passes |-> ScoreRecord(passes[i])]
                 /\ pc' = "select"
                 /\ UNCHANGED <<outcome, error>>
    /\ UNCHANGED <<caller, question, config, results, best_score, branch, template,
                   prompt_ctx, llm_calls, generated, retrieved, unavailable, answer, http>>
    /\ UNCHANGED <<cvars, fvars>>

\* scores.sort(...) and the choice of best_score; scores[0] of an empty list
\* raises IndexError
Select ==
    /\ pc = "select"
    /\ LET sorted == SortByScore(scores)
       IN  /\ scores' = sorted
           /\ IF sorted = <<>>
              THEN /\ outcome' = "raise"
                   /\ error' = "IndexError"
                   /\ pc' = "respond"
                   /\ UNCHANGED <<best_score, branch>>
              ELSE /\ best_score' = <<Selection(sorted).best>>
                   /\ branch' = Selection(sorted).branch
                   /\ pc' = "generate"
                   /\ UNCHANGED <<outcome, error>>
    /\ UNCHANGED <<caller, question, config, results, template, prompt_ctx, llm_calls,
                   generated, retrieved, unavailable, answer, http>>
    /\ UNCHANGED <<cvars, fvars>>

\* prompt building, llm.invoke and the citation footer
Generate ==
    /\ pc = "generate"
    /\ LET best_doc == best_score[1].doc
           context_text == Corpus[best_doc].page_content
           source_doc == SourceOf(best_doc)
       IN  /\ template' = ChooseTemplate(context_text)
           /\ prompt_ctx' = context_text
           /\ llm_calls' = llm_calls + 1
           /\ \/ \E response_content \in Responses :
                   /\ generated' = response_content
                   /\ outcome' = "return"
                   /\ answer' = FinalAnswer(response_content, source_doc)
                   /\ UNCHANGED <<unavailable, error>>
              \/ /\ unavailable' = "generation"
                 /\ outcome' = "raise"
                 /\ error' = "GenerationError"
                 /\ UNCHANGED <<generated, answer>>
    /\ pc' = "respond"
    /\ UNCHANGED <<caller, question, config, results, scores, best_score, branch,
                   retrieved, http>>
    /\ UNCHANGED <<cvars, fvars>>

\* what the caller does with the outcome of answer_question: chat_api parses
\* the answer into JSON (Flask answers 500 to an exception), run_evaluation
\* records the answer (an exception ends the script)
Respond ==
    /\ pc = "respond"
    /\ http' =
         IF caller = "chat"
         THEN (IF outcome = "raise"
               THEN [NoReply EXCEPT !.status = "500"]
               ELSE LET parsed == ParseAnswer(answer)
                    IN  [status |-> "200",
                         answer |-> parsed.answer,
                         citations |-> parsed.citations,
                         error |-> <<>>])
         ELSE (IF outcome = "raise"
               THEN [NoReply EXCEPT !.status = "crashed"]
               ELSE [NoReply EXCEPT !.status = "recorded", !.answer = answer])
    /\ pc' = "done"
    /\ UNCHANGED <<caller, question, config, results, scores, best_score, branch,
                   template, prompt_ctx, llm_calls, generated, retrieved, unavailable,
                   outcome, answer, error>>
    /\ UNCHANGED <<cvars, fvars>>

Next ==
    \/ ChatRequest
    \/ EvaluateRequest
    \/ AblationRequest
    \/ Setup
    \/ Retrieve
    \/ Score
    \/ Select
    \/ Generate
    \/ Respond

Spec == Init /\ [][Next]_vars

----------------------------------------------------------------------------
(* The functions of answer_question called on their own: the tokenizer,    *)
(* the n-gram extractor, and the sort and selection over a list of scores. *)

MaxTextLen == 4

MaxNgramTextLen == 5

MaxCandidates == 4

\* The characters U+201C and U+201D.
LeftCurlyQuote == "U+201C"

RightCurlyQuote == "U+201D"

TextAlphabet == {"A", "b", "1", " ", ".", "(", "*", "\"", LeftCurlyQuote}

NgramAlphabet == {"A", "b", " ", "\n"}

NgramSizes == {1, 2, 3}

\* Sub-scores the loop may compute (term_score is 0: the question has no word
\* of more than three characters), with the final score the loop derives.
SubScores ==
    {[token_overlap |-> to, phrase_score |-> ps, term_score |-> Zero, completeness |-> c,
      score |-> FinalScore(to, ps, Zero, c)] :
        to \in {<<1, 5>>, <<3, 10>>, <<1, 2>>}, ps \in {Zero, <<1, 2>>},
        c \in {Zero, <<3, 20>>}}

\* The list `scores` after the loop over documents with the sub-scores l: the
\* i-th dict is that of the i-th retrieved document.
ScoreList(l) ==
    Str([i \in DOMAIN l |-> [k \in ScoreKeys |-> IF k = "doc" THEN i ELSE l[i][k]]])

\* Contents of retrieved documents the phrase score is computed against.
PhraseDocs ==
    { <<>>,
      <<"A">>,
      <<"b", "\n", "A">>,
      <<"A", " ", "b", " ", "A", " ", "b">>,
      <<"A", " ", "A", " ", "A", " ", " ", "b", "\n", "b">> }

FunctionInit ==
    /\ NoRequest
    /\ NoCalls
    /\ output = <<>>
    /\ \/ \E t \in SeqsUpTo(TextAlphabet, MaxTextLen) :
            input = [NoInput EXCEPT !.fn = "get_normalized_tokens", !.text = t]
       \/ \E t \in SeqsUpTo(NgramAlphabet, MaxNgramTextLen), n \in NgramSizes :
            input = [NoInput EXCEPT !.fn = "get_ngrams", !.text = t, !.n = n]
       \/ \E t \in SeqsUpTo(NgramAlphabet, MaxNgramTextLen) :
            input = [NoInput EXCEPT !.fn = "phrase_score", !.text = t]
       \/ \E l \in SeqsUpTo(SubScores, MaxCandidates) \ {<<>>} :
            input = [NoInput EXCEPT !.fn = "select", !.scores = ScoreList(l)]

GetNormalizedTokensCall ==
    /\ input.fn = "get_normalized_tokens"
    /\ output = <<>>
    /\ output' = <<GetNormalizedTokens(input.text)>>
    /\ UNCHANGED <<input, rvars, cvars>>

GetNgramsCall ==
    /\ input.fn = "get_ngrams"
    /\ output = <<>>
    /\ output' = <<GetNgrams(input.text, input.n)>>
    /\ UNCHANGED <<input, rvars, cvars>>

\* scores.sort(...) and the choice of best_score over a list of scores
SelectCall ==
    /\ input.fn = "select"
    /\ output = <<>>
    /\ LET sorted == SortByScore(input.scores)
       IN  output' = <<[sorted |-> sorted,
                        best_score |-> Selection(sorted).best,
                        branch |-> Selection(sorted).branch]>>
    /\ UNCHANGED <<input, rvars, cvars>>

\* The phrase matching score of one pass of the loop: the question is
\* input.text, the document is one the retriever returned.
PhraseScoreCall ==
    /\ input.fn = "phrase_score"
    /\ output = <<>>
    /\ \E page_content \in PhraseDocs :
        LET question_bigrams == GetNgrams(input.text, 2)
            question_trigrams == GetNgrams(input.text, 3)
            doc_content == Lower(page_content)
            doc_bigrams == GetNgrams(doc_content, 2)
            doc_trigrams == GetNgrams(doc_content, 3)
            bigram_matches == NgramMatches(question_bigrams, doc_bigrams)
            trigram_matches == NgramMatches(question_trigrams, doc_trigrams)
        IN  output' = <<[page_content |-> page_content,
                         bigram_matches |-> bigram_matches,
                         trigram_matches |-> trigram_matches,
                         phrase_score |-> PhraseScore(bigram_matches, trigram_matches)]>>
    /\ UNCHANGED <<input, rvars, cvars>>

FunctionNext ==
    \/ GetNormalizedTokensCall
    \/ GetNgramsCall
    \/ SelectCall
    \/ PhraseScoreCall

FunctionSpec == FunctionInit /\ [][FunctionNext]_vars

----------------------------------------------------------------------------
(* Calls of answer_question running at the same time (a threaded server),  *)
(* or one after the other (the loop of run_evaluation).  frame[f] holds    *)
(* the locals question, results, scores and best_score of a call, with the *)
(* call that last assigned scores and best_score; call[t] holds what call  *)
(* t was given by its caller and its collaborators, what it computed and   *)
(* what it returns.  The vector store exists and the collaborators answer. *)

MaxConcurrentDocs == 2

ConcurrentQuestions ==
    { <<"P", "T", "O">>,
      <<"r", "a", "t", "e", "?", " ", "p", "o", "l", "i", "c", "y">> }

ConcurrentChunks == {1, 2, 3}

ConcurrentRetrievals ==
    {r \in SeqsUpTo(ConcurrentChunks, MaxConcurrentDocs) :
        \A i, j \in DOMAIN r : i # j => r[i] # r[j]}

\* The mutant keeps the locals of every call in one place, as module-level
\* variables would be.
FrameOf_Shared(t) == 1

\* Each call of a Python function has its own locals.
FrameOf(t) == t

\* answer_question(question) is called
CallEnter(t) ==
    /\ call[t].pc = "idle"
    /\ \E q \in ConcurrentQuestions :
        /\ call' = [call EXCEPT ![t] = [IdleCall EXCEPT !.pc = "retrieve", !.question = q]]
        /\ frame' = [frame EXCEPT ![FrameOf(t)] = [UnboundFrame EXCEPT !.question = q]]
    /\ UNCHANGED <<rvars, fvars>>

\* results = compression_retriever.get_relevant_documents(question) and the
\* guardrail gate
CallRetrieve(t) ==
    /\ call[t].pc = "retrieve"
    /\ \E r \in ConcurrentRetrievals :
        /\ frame' = [frame EXCEPT ![FrameOf(t)].results = r]
        /\ call' = [call EXCEPT ![t].docs = r,
                                ![t].answer = IF GuardrailFires(r) THEN RefusalMessage ELSE <<>>,
                                ![t].pc = IF GuardrailFires(r) THEN "return" ELSE "score"]
    /\ UNCHANGED <<rvars, fvars>>

\* the scoring loop, under one of the iteration orders of key_terms
CallScore(t) ==
    /\ call[t].pc = "score"
    /\ LET f == FrameOf(t)
       IN  \E order \in DOMAIN Passes[frame[f].question] :
            LET passes == [i \in DOMAIN frame[f].results |->
                              Passes[frame[f].question][order][frame[f].results[i]]]
                computed == [i \in DOMAIN passes |-> ScoreRecord(passes[i])]
            IN  IF \E i \in DOMAIN passes : passes[i].raised
                THEN /\ call' = [call EXCEPT ![t].error = "ZeroDivisionError",
                                             ![t].pc = "return"]
                     /\ frame' = frame
                ELSE /\ frame' = [frame EXCEPT ![f].scores = computed, ![f].scores_by = t]
                     /\ call' = [call EXCEPT ![t].order = order,
                                             ![t].computed = computed,
                                             ![t].pc = "select"]
    /\ UNCHANGED <<rvars, fvars>>

\* scores.sort(...) and the choice of best_score
CallSelect(t) ==
    /\ call[t].pc = "select"
    /\ LET f == FrameOf(t)
           sorted == SortByScore(frame[f].scores)
           foreign == call[t].foreign \/ frame[f].scores_by # t
       IN  IF sorted = <<>>
           THEN /\ call' = [call EXCEPT ![t].error = "IndexError",
                                        ![t].foreign = foreign,
                                        ![t].pc = "return"]
                /\ frame' = frame
           ELSE /\ frame' = [frame EXCEPT ![f].scores = sorted,
                                          ![f].scores_by = t,
                                          ![f].best_score = <<Selection(sorted).best>>,
                                          ![f].best_by = t]
                /\ call' = [call EXCEPT ![t].selected = Selection(sorted).best.doc,
                                        ![t].foreign = foreign,
                                        ![t].pc = "generate"]
    /\ UNCHANGED <<rvars, fvars>>

\* prompt building, llm.invoke and the citation footer
CallGenerate(t) ==
    /\ call[t].pc = "generate"
    /\ LET f == FrameOf(t)
           foreign == call[t].foreign \/ frame[f].best_by # t
       IN  IF frame[f].best_score = <<>>
           THEN call' = [call EXCEPT ![t].error = "UnboundLocalError",
                                     ![t].foreign = foreign,
                                     ![t].pc = "return"]
           ELSE \E response_content \in Responses :
                   call' = [call EXCEPT
                               ![t].response = response_content,
                               ![t].answer = FinalAnswer(response_content,
                                                         SourceOf(frame[f].best_score[1].doc)),
                               ![t].foreign = foreign,
                               ![t].pc = "return"]
    /\ UNCHANGED <<frame, rvars, fvars>>

\* answer_question returns: its locals are gone
CallReturn(t) ==
    /\ call[t].pc = "return"
    /\ call' = [call EXCEPT ![t] = IdleCall]
    /\ frame' = [frame EXCEPT ![FrameOf(t)] = UnboundFrame]
    /\ UNCHANGED <<rvars, fvars>>

ConcurrentNext ==
    \E t \in Invocations :
        \/ CallEnter(t)
        \/ CallRetrieve(t)
        \/ CallScore(t)
        \/ CallSelect(t)
        \/ CallGenerate(t)
        \/ CallReturn(t)

ConcurrentSpec == Init /\ [][ConcurrentNext]_vars

----------------------------------------------------------------------------
(* Properties.                                                             *)

\* C1: whenever the retrieval call returned an empty candidate sequence,
\* answer_question returns the fixed refusal string, the language model is
\* invoked zero times, and no scoring, selection or prompt building happens.
C1_EmptyRetrievalRefuses ==
    (retrieved /\ results = <<>>) =>
        /\ pc \in {"respond", "done"}
        /\ outcome = "return"
        /\ answer = RefusalMessage
        /\ llm_calls = 0
        /\ scores = <<>>
        /\ best_score = <<>>
        /\ template = "none"
        /\ prompt_ctx = <<>>

C1_Witness ==
    /\ pc = "done"
    /\ caller = "chat"
    /\ retrieved
    /\ results = <<>>
    /\ http.status = "200"
    /\ http.answer = RefusalMessage

C2_Top == 1..(IF Len(scores) < 3 THEN Len(scores) ELSE 3)

C2_Strong ==
    {i \in C2_Top : \/ RatLeq(<<4, 10>>, scores[i].token_overlap)
                    \/ RatLeq(<<5, 10>>, scores[i].phrase_score)}

C2_Blend(s) == RatAdd(RatMul(<<6, 10>>, s.token_overlap), RatMul(<<4, 10>>, s.phrase_score))

\* C2: over two or more scored candidates, if at least one of the top three
\* by finalScore has tokenOverlap >= 0.4 or phraseScore >= 0.5, the selected
\* candidate is one of those strong matches and maximizes
\* 0.6*tokenOverlap + 0.4*phraseScore among them, whatever their finalScore
\* order.
C2_StrongMatchMaximizesBlend ==
    (best_score # <<>> /\ Len(scores) >= 2 /\ C2_Strong # {}) =>
        /\ \E i \in C2_Strong : scores[i] = best_score[1]
        /\ \A j \in C2_Strong : RatLeq(C2_Blend(scores[j]), C2_Blend(best_score[1]))

\* Two strong matches, and the selected one is not the one ranked first.
C2_Witness ==
    /\ best_score # <<>>
    /\ Len(scores) >= 2
    /\ Cardinality(C2_Strong) >= 2
    /\ 1 \in C2_Strong
    /\ best_score[1] # scores[1]
    /\ RatLess(best_score[1].score, scores[1].score)

C3_InUnitInterval(x) == x[2] > 0 /\ 0 <= x[1] /\ x[1] <= x[2]

\* C3: each of the four sub-scores tokenOverlap, phraseScore, termScore and
\* completeness of every scored candidate lies in [0, 1].
C3_SubScoresInUnitInterval ==
    \A i \in DOMAIN scores :
        /\ C3_InUnitInterval(scores[i].token_overlap)
        /\ C3_InUnitInterval(scores[i].phrase_score)
        /\ C3_InUnitInterval(scores[i].term_score)
        /\ C3_InUnitInterval(scores[i].completeness)

\* A document of more than 100 tokens (completeness is capped) whose other
\* sub-scores are strictly between 0 and 1.
C3_Witness ==
    \E i \in DOMAIN scores :
        /\ Cardinality(DocTokens[scores[i].doc]) > 100
        /\ scores[i].completeness = <<1, 1>>
        /\ \A x \in {scores[i].token_overlap, scores[i].phrase_score, scores[i].term_score} :
               0 < x[1] /\ x[1] < x[2]

C4_Weighted(s) ==
    RatAdd(RatAdd(RatMul(<<35, 100>>, s.token_overlap), RatMul(<<25, 100>>, s.phrase_score)),
           RatAdd(RatMul(<<20, 100>>, s.term_score), RatMul(<<20, 100>>, s.completeness)))

\* C4: finalScore of every candidate equals 0.35*tokenOverlap +
\* 0.25*phraseScore + 0.20*termScore + 0.20*completeness, the four weights
\* of the scorer sum to exactly 1, and finalScore is in [0, 1].
C4_FinalScoreIsWeightedBlend ==
    /\ RatAdd(RatAdd(WeightTokenOverlap, WeightPhrase),
              RatAdd(WeightTerm, WeightCompleteness)) = <<1, 1>>
    /\ \A i \in DOMAIN scores :
        /\ RatEq(scores[i].score, C4_Weighted(scores[i]))
        /\ scores[i].score[2] > 0
        /\ 0 <= scores[i].score[1]
        /\ scores[i].score[1] <= scores[i].score[2]

\* A candidate all of whose sub-scores contribute to its finalScore.
C4_Witness ==
    \E i \in DOMAIN scores :
        /\ \A x \in {scores[i].token_overlap, scores[i].phrase_score,
                     scores[i].term_score, scores[i].completeness} : x[1] > 0
        /\ ~RatEq(scores[i].score, scores[i].token_overlap)

\* C5: a run of the pipeline with use_weighted_scoring = False (the ablation
\* driver's no_weights configuration) is carried out, and scores every
\* candidate with finalScore equal to tokenOverlap.
C5_UnweightedRunUsesTokenOverlap ==
    (pc = "done" /\ config # <<>> /\ ~config[1].use_weighted_scoring) =>
        /\ error # "TypeError"
        /\ \A i \in DOMAIN scores : RatEq(scores[i].score, scores[i].token_overlap)

\* C6: a run of the pipeline with use_ngrams = False (the ablation driver's
\* no_ngrams configuration) is carried out, and gives every candidate a
\* phraseScore of 0.
C6_NoNgramsRunHasZeroPhraseScore ==
    (pc = "done" /\ config # <<>> /\ ~config[1].use_ngrams) =>
        /\ error # "TypeError"
        /\ \A i \in DOMAIN scores : scores[i].phrase_score[1] = 0

C7_BigramRatio(i) ==
    LET question_bigrams == GetNgrams(question, 2)
    IN  <<Cardinality(question_bigrams \cap DocBigrams[scores[i].doc]),
          Cardinality(question_bigrams)>>

\* C7: for every question, scoring completes without a division by zero, and
\* a sub-score (or n-gram ratio) whose denominator set is empty is exactly 0:
\* tokenOverlap when QuestionTokens is empty, termScore when KeyTerms is
\* empty, phraseScore when the bigram set is empty (the trigram set is then
\* empty too), and the trigram ratio when the trigram set is empty, so that
\* phraseScore is half the bigram ratio.
C7_EmptyDenominatorScoresZero ==
    /\ error # "ZeroDivisionError"
    /\ pc = "select" =>
        /\ GetNormalizedTokens(question) = {} =>
               \A i \in DOMAIN scores : scores[i].token_overlap[1] = 0
        /\ KeyTerms(question) = {} =>
               \A i \in DOMAIN scores : scores[i].term_score[1] = 0
        /\ GetNgrams(question, 2) = {} =>
               \A i \in DOMAIN scores : scores[i].phrase_score[1] = 0
        /\ (GetNgrams(question, 3) = {} /\ GetNgrams(question, 2) # {}) =>
               \A i \in DOMAIN scores :
                   RatEq(RatAdd(scores[i].phrase_score, scores[i].phrase_score),
                         C7_BigramRatio(i))

\* A non-empty question with no token, no key term and no n-gram was scored.
C7_Witness ==
    /\ pc = "select"
    /\ scores # <<>>
    /\ question # <<>>
    /\ GetNormalizedTokens(question) = {}
    /\ KeyTerms(question) = {}
    /\ GetNgrams(question, 2) = {}

C8_Footer ==
    <<"\n", "\n", "*", "*", "S", "o", "u", "r", "c", "e", "s", ":", "*", "*", " ">>

C8_Sentinel ==
    <<"U", "n", "k", "n", "o", "w", "n", " ", "S", "o", "u", "r", "c", "e">>

C8_SourceId(d) ==
    LET ids == {p[2] : p \in {m \in Corpus[d].metadata : m[1] = "source"}}
    IN  IF ids = {} THEN C8_Sentinel ELSE CHOOSE id \in ids : TRUE

\* C8: in every request where generation was invoked and answered, the
\* returned answer is the generated text, then "\n\n**Sources:** ", then the
\* source id of the selected candidate, or "Unknown Source" when its metadata
\* holds no source id.
C8_AnswerEndsWithCitation ==
    (llm_calls > 0 /\ outcome = "return") =>
        answer = generated \o C8_Footer \o C8_SourceId(best_score[1].doc)

\* An answer built from a candidate whose metadata holds no source id.
C8_Witness ==
    /\ pc = "done"
    /\ llm_calls > 0
    /\ outcome = "return"
    /\ Corpus[best_score[1].doc].metadata = {}
    /\ answer = generated \o C8_Footer \o C8_Sentinel

\* C9: when an external collaborator is unavailable, /chat does not return
\* a successful answer.
C9_UnavailableIsNotAnAnswer ==
    (pc = "done" /\ caller = "chat" /\ unavailable # "none") => http.status # "200"

\* C10: when retrieval returned exactly one candidate, that candidate is the
\* one selected, and neither the strong-match filter nor the escalation rule
\* ran.
C10_SingleCandidateIsSelected ==
    (Len(results) = 1 /\ best_score # <<>>) =>
        /\ best_score[1].doc = results[1]
        /\ branch = "single"

\* A single candidate all of whose sub-scores are zero was selected.
C10_Witness ==
    /\ Len(results) = 1
    /\ best_score # <<>>
    /\ best_score[1].doc = results[1]
    /\ best_score[1].token_overlap[1] = 0
    /\ best_score[1].phrase_score[1] = 0
    /\ best_score[1].term_score[1] = 0
    /\ best_score[1].completeness[1] = 0
    /\ best_score[1].score[1] = 0

C19_ParsingInvertsComposition ==
    (pc = "done" /\ caller = "chat" /\ outcome = "return" /\ llm_calls > 0) =>
        /\ http.answer = Strip(generated, Whitespace)
        /\ http.citations = <<SourceOf(best_score[1].doc)>>

\* C14: get_ngrams(text, n) is exactly the set of the contiguous n-word
\* sequences of the lowercased, whitespace-split text, each joined by one
\* space; it has at most len(words) - n + 1 elements, and it is empty when
\* the text has fewer than n words (the empty text included).
C14_NgramsAreTheContiguousSequences ==
    (input.fn = "get_ngrams" /\ output # <<>>) =>
        LET words == Split(Lower(input.text))
            positions == 1..(Len(words) - input.n + 1)
        IN  /\ \A g \in output[1] :
                 /\ g = JoinSpace(Split(g))
                 /\ \E p \in positions : Split(g) = SubSeq(words, p, p + input.n - 1)
            /\ \A p \in positions :
                 JoinSpace(SubSeq(words, p, p + input.n - 1)) \in output[1]
            /\ Cardinality(output[1]) <= Cardinality(positions)
            /\ Len(words) < input.n => output[1] = {}

\* Bigrams of a text of three words with a repeated bigram: one element.
C14_Witness ==
    /\ input.fn = "get_ngrams"
    /\ input.n = 2
    /\ output # <<>>
    /\ Len(Split(input.text)) = 3
    /\ Cardinality(output[1]) = 1
    /\ \E i \in DOMAIN input.text : input.text[i] = "A"

\* C15: every token get_normalized_tokens returns is lowercase, at least
\* two characters long (so non-empty), not made of digits alone, holds no
\* whitespace and no parenthesis, and neither starts nor ends with one of
\* . , ; : ? !
C15_TokensAreNormalized ==
    (input.fn = "get_normalized_tokens" /\ output # <<>>) =>
        \A token \in output[1] :
            /\ token # <<>>
            /\ Len(token) >= 2
            /\ \A i \in DOMAIN token :
                   token[i] \notin UpperSet \cup {" ", "\n", "\t", "(", ")"}
            /\ \E i \in DOMAIN token : token[i] \notin Digits
            /\ token[1] \notin {".", ",", ";", ":", "?", "!"}
            /\ token[Len(token)] \notin {".", ",", ";", ":", "?", "!"}

\* "(Ab." gives the one token "ab".
C15_Witness ==
    /\ input.fn = "get_normalized_tokens"
    /\ input.text = <<"(", "A", "b", ".">>
    /\ output = <<{<<"a", "b">>}>>

C16_Quotes == {"\"", LeftCurlyQuote, RightCurlyQuote}

C16_Wrapped(text) ==
    /\ Len(text) >= 3
    /\ <<text[1], text[Len(text)]>> \in
          {<<"\"", "\"">>, <<LeftCurlyQuote, RightCurlyQuote>>, <<LeftCurlyQuote, LeftCurlyQuote>>}
    /\ \A i \in 2..(Len(text) - 1) : text[i] \notin C16_Quotes \cup Whitespace

\* C16: no token get_normalized_tokens returns holds a straight or curly
\* quote character or the bold marker **, and a word wrapped in quotes gives
\* the tokens of the bare word.
C16_QuotesAndBoldAreStripped ==
    (input.fn = "get_normalized_tokens" /\ output # <<>>) =>
        /\ \A token \in output[1] :
              /\ \A i \in DOMAIN token : token[i] \notin C16_Quotes
              /\ \A i \in 1..(Len(token) - 1) : ~(token[i] = "*" /\ token[i + 1] = "*")
        /\ C16_Wrapped(input.text) =>
              output[1] = GetNormalizedTokens(SubSeq(input.text, 2, Len(input.text) - 1))

C17_Replaces(candidate, best) ==
    \/ RatLess(RatMul(<<14, 10>>, best.token_overlap), candidate.token_overlap)
    \/ RatLess(RatMul(<<13, 10>>, best.phrase_score), candidate.phrase_score)
    \/ /\ RatLess(RatMul(<<9, 10>>, best.score), candidate.score)
       /\ RatLess(RatMul(<<12, 10>>, best.completeness), candidate.completeness)

C17_NotStrong(s) ==
    RatLess(s.token_overlap, <<4, 10>>) /\ RatLess(s.phrase_score, <<5, 10>>)

C17_AfterSecond(sorted) ==
    IF Len(sorted) >= 2 /\ C17_Replaces(sorted[2], sorted[1]) THEN sorted[2] ELSE sorted[1]

C17_AfterThird(sorted) ==
    IF Len(sorted) >= 3 /\ C17_Replaces(sorted[3], C17_AfterSecond(sorted))
    THEN sorted[3]
    ELSE C17_AfterSecond(sorted)

C18_Blend(s) == RatAdd(RatMul(<<6, 10>>, s.token_overlap), RatMul(<<4, 10>>, s.phrase_score))

C18_Strong(s) == RatLeq(<<4, 10>>, s.token_overlap) \/ RatLeq(<<5, 10>>, s.phrase_score)

\* C18: the sort is descending by finalScore and keeps candidates of equal
\* finalScore in retrieval order, and among the strong matches of the top
\* three no one sorted before the selected candidate has a blend
\* 0.6 * tokenOverlap + 0.4 * phraseScore as high as the selected one's.
C18_TiesKeepRetrievalOrder ==
    (input.fn = "select" /\ output # <<>>) =>
        LET sorted == output[1].sorted
        IN  /\ Len(sorted) = Len(input.scores)
            /\ \A i \in DOMAIN sorted : sorted[i] = input.scores[sorted[i].doc]
            /\ \A i, j \in DOMAIN sorted :
                 i < j => \/ RatLess(sorted[j].score, sorted[i].score)
                          \/ /\ RatEq(sorted[i].score, sorted[j].score)
                             /\ sorted[i].doc < sorted[j].doc
            /\ output[1].branch = "strong" =>
                 \E at \in DOMAIN sorted :
                    /\ at <= 3
                    /\ sorted[at] = output[1].best_score
                    /\ \A k \in 1..(at - 1) :
                         C18_Strong(sorted[k]) =>
                            RatLess(C18_Blend(sorted[k]), C18_Blend(sorted[at]))

\* Four candidates: the third and fourth have equal finalScore, and two
\* strong matches have equal blends, of which the one sorted first is selected
\* although it was retrieved later.
C18_Witness ==
    /\ input.fn = "select"
    /\ output # <<>>
    /\ Len(output[1].sorted) = 4
    /\ RatEq(output[1].sorted[3].score, output[1].sorted[4].score)
    /\ output[1].branch = "strong"
    /\ output[1].best_score = output[1].sorted[1]
    /\ C18_Strong(output[1].sorted[2])
    /\ RatEq(C18_Blend(output[1].sorted[2]), C18_Blend(output[1].sorted[1]))
    /\ output[1].sorted[2].doc < output[1].sorted[1].doc

\* C20: the selected candidate is one of the candidates given, and it is at
\* one of the first three positions of the list sorted by finalScore.
C20_SelectedIsInTopThree ==
    (input.fn = "select" /\ output # <<>>) =>
        /\ \E i \in DOMAIN input.scores : input.scores[i] = output[1].best_score
        /\ \E i \in DOMAIN output[1].sorted :
              i <= 3 /\ output[1].sorted[i] = output[1].best_score
        /\ \A i \in DOMAIN output[1].sorted :
              i >= 4 => output[1].sorted[i].doc # output[1].best_score.doc

\* The candidate ranked fourth is a strong match with a higher
\* 0.6 * tokenOverlap + 0.4 * phraseScore than the selected candidate.
C20_Witness ==
    /\ input.fn = "select"
    /\ output # <<>>
    /\ Len(output[1].sorted) = 4
    /\ RatLeq(<<5, 10>>, output[1].sorted[4].phrase_score)
    /\ RatLess(RatAdd(RatMul(<<6, 10>>, output[1].best_score.token_overlap),
                      RatMul(<<4, 10>>, output[1].best_score.phrase_score)),
               RatAdd(RatMul(<<6, 10>>, output[1].sorted[4].token_overlap),
                      RatMul(<<4, 10>>, output[1].sorted[4].phrase_score)))

C11_Scored == {"select", "generate", "return"}

C11_Selected == {"generate", "return"}

\* C11: two calls of answer_question over the same question and the same
\* ordered candidates, run one after the other or at the same time and
\* whatever the iteration order of Python's sets in each, compute the same
\* sub-scores and finalScore for every candidate and select the same
\* candidate.
C11_ScoringAndSelectionAreDeterministic ==
    \A t, u \in Invocations :
        (/\ call[t].question = call[u].question
         /\ call[t].docs = call[u].docs
         /\ call[t].docs # <<>>) =>
            /\ (call[t].pc \in C11_Scored /\ call[u].pc \in C11_Scored) =>
                  /\ call[t].error = "none"
                  /\ call[t].computed = call[u].computed
                  /\ Len(call[t].computed) = Len(call[t].docs)
            /\ (call[t].pc \in C11_Selected /\ call[u].pc \in C11_Selected) =>
                  /\ call[t].selected = call[u].selected
                  /\ \E i \in DOMAIN call[t].docs : call[t].docs[i] = call[t].selected

\* Two calls over the same question and the same two candidates iterated
\* the key terms in different orders and selected the same candidate.
C11_Witness ==
    /\ call[1].pc = "return"
    /\ call[2].pc = "return"
    /\ call[1].question = call[2].question
    /\ call[1].docs = call[2].docs
    /\ Len(call[1].docs) = 2
    /\ call[1].order # call[2].order
    /\ call[1].computed = call[2].computed
    /\ call[1].selected = call[2].selected
    /\ call[1].selected # 0

\* What answer_question returns when it runs alone.
C13_AnswerAlone(q, docs, response_content) ==
    IF docs = <<>> THEN RefusalMessage
    ELSE LET order == CHOOSE o \in DOMAIN Passes[q] : TRUE
             alone == [i \in DOMAIN docs |-> ScoreRecord(Passes[q][order][docs[i]])]
         IN  FinalAnswer(response_content,
                         SourceOf(Selection(SortByScore(alone)).best.doc))

\* C13: under every interleaving of two calls of answer_question, each call
\* returns the answer it would return alone with the same question,
\* retrieved documents and generated text, no call fails, and no call reads
\* scores or a selection that another call wrote.
C13_CallsShareNoState ==
    \A t \in Invocations :
        /\ ~call[t].foreign
        /\ call[t].pc = "return" =>
              /\ call[t].error = "none"
              /\ call[t].answer =
                    C13_AnswerAlone(call[t].question, call[t].docs, call[t].response)

\* A call returns its answer while the other call, over another question and
\* other documents, is between its scoring and its generation.
C13_Witness ==
    /\ call[1].pc = "return"
    /\ call[1].selected # 0
    /\ call[2].pc \in {"select", "generate"}
    /\ call[1].question # call[2].question
    /\ call[1].docs # call[2].docs
    /\ call[2].docs # <<>>
    /\ call[1].answer = C13_AnswerAlone(call[1].question, call[1].docs, call[1].response)

----------------------------------------------------------------------------
(* Context and citation.                                                   *)

\* the document of the selected score record
C21_Selected == best_score[1].doc

C21_Footer ==
    <<"\n", "\n", "*", "*", "S", "o", "u", "r", "c", "e", "s", ":", "*", "*", " ">>

C21_SourceId(d) ==
    LET ids == {p[2] : p \in {m \in Corpus[d].metadata : m[1] = "source"}}
    IN  IF ids = {}
        THEN <<"U", "n", "k", "n", "o", "w", "n", " ", "S", "o", "u", "r", "c", "e">>
        ELSE CHOOSE id \in ids : TRUE

\* C21: in every request that reached generation, the selected candidate is
\* one of the retrieved ones, the context placed in the prompt is exactly the
\* content of the selected candidate (so the content of any other candidate
\* is in the prompt only where it is part of the selected one's), and the
\* citation footer of a returned answer holds the source id of that same
\* candidate.
C21_ContextAndCitationFromSelected ==
    llm_calls > 0 =>
        /\ \E i \in DOMAIN results : results[i] = C21_Selected
        /\ prompt_ctx = Corpus[C21_Selected].page_content
        /\ \A i \in DOMAIN results :
              Len(Corpus[results[i]].page_content) > Len(Corpus[C21_Selected].page_content)
                  => prompt_ctx # Corpus[results[i]].page_content
        /\ outcome = "return" =>
              answer = generated \o C21_Footer \o C21_SourceId(C21_Selected)

\* An answer whose selected candidate is not the one ranked first by final
\* score: context and source id are those of the selected candidate and
\* differ from those of the first.
C21_Witness ==
    /\ pc = "done"
    /\ llm_calls > 0
    /\ outcome = "return"
    /\ Len(results) > 1
    /\ C21_Selected # scores[1].doc
    /\ prompt_ctx = Corpus[C21_Selected].page_content
    /\ prompt_ctx # Corpus[scores[1].doc].page_content
    /\ C21_SourceId(C21_Selected) # C21_SourceId(scores[1].doc)
    /\ answer = generated \o C21_Footer \o C21_SourceId(C21_Selected)

----------------------------------------------------------------------------
(* The phrase score and the number of words of the question.               *)

\* the number of maximal runs of characters that are not whitespace
C22_WordCount(text) ==
    Cardinality({i \in DOMAIN text :
                    /\ text[i] \notin {" ", "\n"}
                    /\ (i = 1 \/ text[i - 1] \in {" ", "\n"})})

C22_Half == <<1, 2>>

\* C22: the phrase score of any document is 0 for a question of fewer than
\* two whitespace-separated words; for a question of exactly two words the
\* trigram ratio is 0 and the phrase score is 0 or exactly 1/2; a phrase
\* score above 1/2 occurs only for a question of at least three words.
C22_PhraseScoreBoundedByWordCount ==
    (input.fn = "phrase_score" /\ output # <<>>) =>
        LET words == C22_WordCount(input.text)
            phrase_score == output[1].phrase_score
        IN  /\ words < 2 => phrase_score[1] = 0
            /\ words = 2 =>
                  /\ output[1].trigram_matches[1] = 0
                  /\ phrase_score[1] = 0
                     \/ phrase_score[1] * C22_Half[2] = C22_Half[1] * phrase_score[2]
            /\ phrase_score[1] * C22_Half[2] > C22_Half[1] * phrase_score[2] => words >= 3

\* A question of two words on two lines whose one bigram is in the document:
\* the phrase score is exactly 1/2.
C22_Witness ==
    /\ input.fn = "phrase_score"
    /\ output # <<>>
    /\ C22_WordCount(input.text) = 2
    /\ \E i \in DOMAIN input.text : input.text[i] = "\n"
    /\ output[1].bigram_matches[1] = output[1].bigram_matches[2]
    /\ output[1].trigram_matches[1] = 0
    /\ output[1].phrase_score[1] * 2 = output[1].phrase_score[2]

====
